---- MODULE Spec2Model ----
(***************************************************************************)
(* State-machine model of the App component of src/src/App.tsx: the view   *)
(* state held by useState, the fetches issued by fetchData and their       *)
(* completions, the two effects and the chart instance they own.           *)
(*                                                                         *)
(* One action is one turn of the UI event loop: a user event together with *)
(* the render and the effects it causes, or the continuation of fetchData  *)
(* after its await together with the render and the effects it causes.     *)
(* Strings that the code transforms (the symbol) are sequences of          *)
(* one-character strings.                                                  *)
(***************************************************************************)
EXTENDS Integers, Sequences, FiniteSets, TLC

\* ---------------------------------------------------------------- bounds
MaxFetches == 3     \* fetches issued in one run
MaxBars == 1        \* bars in one response page
MaxSymLen == 1      \* characters in a typed input value

\* ------------------------------------------------------ program constants
DefaultSymbol == <<"A", "A", "P", "L">>
FirstPage == 1
MsPerSecond == 1000
ChartWidth == 600
ChartHeight == 300
ErrorMessage == "Failed to fetch data"

\* string | null, number | null
None == <<>>
Some(x) == <<x>>
NullRef == 0

\* JavaScript truthiness of a string | null value: null and "" are falsy
Truthy(e) == e # None /\ e[1] # ""

\* ------------------------------------------------------------- the input
TypedChars == {"a", "A"}

RECURSIVE StringsUpTo(_)
StringsUpTo(n) ==
  IF n = 0 THEN {<<>>}
  ELSE LET shorter == StringsUpTo(n - 1)
       IN shorter \cup {Append(s, ch) : s \in {x \in shorter : Len(x) = n - 1}, ch \in TypedChars}

TypedValues == StringsUpTo(MaxSymLen)

\* String.prototype.toUpperCase, character by character
UpperChar(ch) ==
  CASE ch = "a" -> "A"
    [] ch = "l" -> "L"
    [] ch = "p" -> "P"
    [] ch = "s" -> "S"
    [] ch = "t" -> "T"
    [] OTHER -> ch

\* variant: the typed value stored as typed
toUpperCaseIdentity(s) == s

toUpperCase(s) == [i \in 1..Len(s) |-> UpperChar(s[i])]

\* ------------------------------------------------------ the remote service
\* The bar the service returns at position i of a page; the service is
\* external, so the number of bars and the hasMore flag of a response are
\* chosen freely when the fetch resolves.
ServerBar(sym, pg, i) ==
  [t |-> pg * MsPerSecond + i * 500, o |-> pg + 1, h |-> pg + 3, l |-> pg,
   c |-> pg + 2, v |-> Len(sym)]

ResponseData(req, n) == [i \in 1..n |-> ServerBar(req.symbol, req.page, i)]

VARIABLES
  pc,         \* "init" (constructed, effects not yet run), "mounted", "unmounted"
  data, loading, error, symbol, page, hasMore,   \* useState
  issued,     \* number of calls of API.get so far
  inflight,   \* the calls whose promise is not yet settled, by order of issue
  sequential, \* so far no fetch was issued with another in flight and none has failed
  chartRef,   \* chartRef.current: NullRef or an index of charts
  charts,     \* every chart instance created so far
  ev          \* the event handled by the last step

vars == <<pc, data, loading, error, symbol, page, hasMore, issued, inflight,
          sequential, chartRef, charts, ev>>

view == <<data, loading, error, symbol, page, hasMore>>

\* ------------------------------------------------------------- rendering
\* variant: the normal view returned whatever the error
ViewIgnoringError ==
  [kind |-> "normal", input |-> symbol, loadingShown |-> loading,
   loadMoreShown |-> hasMore /\ ~loading]

\* What the component returns for the current state
View ==
  IF Truthy(error)
  THEN [kind |-> "error", text |-> error[1]]
  ELSE [kind |-> "normal", input |-> symbol, loadingShown |-> loading,
        loadMoreShown |-> hasMore /\ ~loading]

\* variant: the form rendered in the error view too
FormDisplayedWithError == pc = "mounted"

FormDisplayed == pc = "mounted" /\ View.kind = "normal"

\* variant: the button rendered while a fetch is loading
LoadMoreRenderedWhileLoading == pc = "mounted" /\ View.kind = "normal" /\ hasMore

LoadMoreRendered == FormDisplayed /\ View.loadMoreShown

\* chartContainerRef.current is set while the container div is rendered
ContainerAttached(e) == ~Truthy(e)

\* ------------------------------------------------------------- fetchData
\* fetchData up to its await: setLoading(true) and the API.get call with the
\* symbol of the render whose closure is running; held keeps, for a load-more
\* call, the records at the click
FetchIssue(sym, pageNum, append, src) ==
  /\ issued < MaxFetches
  /\ loading' = TRUE
  /\ issued' = issued + 1
  /\ inflight' = [i \in DOMAIN inflight \cup {issued + 1} |->
                    IF i \in DOMAIN inflight THEN inflight[i]
                    ELSE [symbol |-> sym, page |-> pageNum, append |-> append,
                          src |-> src, held |-> IF append THEN data ELSE <<>>,
                          overtaken |-> FALSE]]
  /\ sequential' = (sequential /\ DOMAIN inflight = {})

\* the promise of call id settles; overtaken records, for the calls left in
\* flight, that another fetch has committed since they were issued
Settled(id, committed) ==
  [i \in DOMAIN inflight \ {id} |->
     [inflight[i] EXCEPT !.overtaken = @ \/ committed]]

\* variant: every response appended
NextDataAlwaysAppend(prev, respData, append) == prev \o respData

\* variant: the new page put in front of the records
NextDataPrepend(prev, respData, append) ==
  IF append THEN respData \o prev ELSE respData

\* the records after a successful fetch
NextData(prev, respData, append) ==
  IF append THEN prev \o respData ELSE respData

\* variant: setPage left out
fetchDataSuccessStalePage(req, respData, respMore, prev) ==
  [data |-> IF req.append THEN prev \o respData ELSE respData, hasMore |-> respMore,
   page |-> page, loading |-> FALSE]

\* variant: the response of a fetch for another symbol than the stored one dropped
fetchDataSuccessDropsStale(req, respData, respMore, prev) ==
  IF req.symbol # symbol
  THEN [data |-> prev, hasMore |-> hasMore, page |-> page, loading |-> loading]
  ELSE [data |-> IF req.append THEN prev \o respData ELSE respData, hasMore |-> respMore,
        page |-> req.page, loading |-> FALSE]

\* the state written by the try block after the await
fetchDataSuccess(req, respData, respMore, prev) ==
  [data |-> NextData(prev, respData, req.append), hasMore |-> respMore,
   page |-> req.page, loading |-> FALSE]

\* variant: setLoading(false) left out of the catch block
fetchDataCatchKeepsLoading ==
  [error |-> Some(ErrorMessage), loading |-> loading]

\* the state written by the catch block
fetchDataCatch ==
  [error |-> Some(ErrorMessage), loading |-> FALSE]

\* ---------------------------------------------------------- chart effect
\* variant: whole seconds only
ChartPointTruncated(d) ==
  [time |-> [sec |-> d.t \div MsPerSecond, ms |-> 0],
   open |-> d.o, high |-> d.h, low |-> d.l, close |-> d.c]

\* the projection of one record handed to the candlestick series; t / 1000
\* is a floating-point division, kept exact as seconds and remaining ms
ChartPoint(d) ==
  [time |-> [sec |-> d.t \div MsPerSecond, ms |-> d.t % MsPerSecond],
   open |-> d.o, high |-> d.h, low |-> d.l, close |-> d.c]

\* variant: chartRef.current = null left out of the cleanup
DataEffectCleanupKeepsRef(st) ==
  IF st.ref # NullRef
  THEN [ref |-> st.ref,
        charts |-> [st.charts EXCEPT ![st.ref].removed = @ + 1, ![st.ref].series = <<>>]]
  ELSE st

\* the cleanup returned by the data effect
DataEffectCleanup(st) ==
  IF st.ref # NullRef
  THEN [ref |-> NullRef,
        charts |-> [st.charts EXCEPT ![st.ref].removed = @ + 1, ![st.ref].series = <<>>]]
  ELSE st

\* variant: data.length > 0 left out of the condition
DataEffectIgnoresEmpty(st, d, attached) ==
  IF attached
  THEN LET created == IF st.ref = NullRef
                      THEN [ref |-> Len(st.charts) + 1,
                            charts |-> Append(st.charts,
                                        [width |-> ChartWidth, height |-> ChartHeight,
                                         removed |-> 0, series |-> <<>>])]
                      ELSE st
       IN [ref |-> created.ref,
           charts |-> [created.charts EXCEPT ![created.ref].series =
                         Append(@, [i \in 1..Len(d) |-> ChartPoint(d[i])])]]
  ELSE st

\* the body of the data effect
DataEffect(st, d, attached) ==
  IF attached /\ Len(d) > 0
  THEN LET created == IF st.ref = NullRef
                      THEN [ref |-> Len(st.charts) + 1,
                            charts |-> Append(st.charts,
                                        [width |-> ChartWidth, height |-> ChartHeight,
                                         removed |-> 0, series |-> <<>>])]
                      ELSE st
       IN [ref |-> created.ref,
           charts |-> [created.charts EXCEPT ![created.ref].series =
                         Append(@, [i \in 1..Len(d) |-> ChartPoint(d[i])])]]
  ELSE st

\* variant: the previous chart kept over a change of the data
DataEffectRerunNoCleanup(st, d, attached) == DataEffect(st, d, attached)

\* a change of the data reference: cleanup of the previous run, then the body
DataEffectRerun(st, d, attached) == DataEffect(DataEffectCleanup(st), d, attached)

\* variant: an empty dependency list, the effect runs on mount only
SymbolEffectMountOnly(old, new) == FALSE

\* the symbol effect runs again when its dependency [symbol] has changed
SymbolEffectFires(old, new) == old # new

\* ------------------------------------------------------------------ Init
Init ==
  /\ pc = "init"
  /\ data = <<>>
  /\ loading = TRUE
  /\ error = None
  /\ symbol = DefaultSymbol
  /\ page = FirstPage
  /\ hasMore = TRUE
  /\ issued = 0
  /\ inflight = <<>>
  /\ sequential = TRUE
  /\ chartRef = NullRef
  /\ charts = <<>>
  /\ ev = [kind |-> "construct"]

\* --------------------------------------------------------------- actions
\* first commit: both effects run
Mount ==
  /\ pc = "init"
  /\ pc' = "mounted"
  /\ FetchIssue(symbol, FirstPage, FALSE, "mount")
  /\ LET st == DataEffect([ref |-> chartRef, charts |-> charts], data, ContainerAttached(error))
     IN /\ chartRef' = st.ref
        /\ charts' = st.charts
  /\ ev' = [kind |-> "mount"]
  /\ UNCHANGED <<data, error, symbol, page, hasMore>>

\* onChange of the input, then the symbol effect of the next render
handleSymbolChange(value) ==
  /\ FormDisplayed
  /\ symbol' = toUpperCase(value)
  /\ IF SymbolEffectFires(symbol, symbol')
     THEN FetchIssue(symbol', FirstPage, FALSE, "change")
     ELSE UNCHANGED <<loading, issued, inflight, sequential>>
  /\ ev' = [kind |-> "change", value |-> value]
  /\ UNCHANGED <<pc, data, error, page, hasMore, chartRef, charts>>

\* onSubmit of the form
handleSubmit ==
  /\ FormDisplayed
  /\ FetchIssue(symbol, FirstPage, FALSE, "submit")
  /\ ev' = [kind |-> "submit"]
  /\ UNCHANGED <<pc, data, error, symbol, page, hasMore, chartRef, charts>>

\* variant: the page already held requested again
loadMoreSamePage ==
  /\ LoadMoreRendered
  /\ IF hasMore
     THEN FetchIssue(symbol, page, TRUE, "loadMore")
     ELSE UNCHANGED <<loading, issued, inflight, sequential>>
  /\ ev' = [kind |-> "loadMore"]
  /\ UNCHANGED <<pc, data, error, symbol, page, hasMore, chartRef, charts>>

\* onClick of the Load More button
loadMore ==
  /\ LoadMoreRendered
  /\ IF hasMore
     THEN FetchIssue(symbol, page + 1, TRUE, "loadMore")
     ELSE UNCHANGED <<loading, issued, inflight, sequential>>
  /\ ev' = [kind |-> "loadMore"]
  /\ UNCHANGED <<pc, data, error, symbol, page, hasMore, chartRef, charts>>

\* API.get resolves: the try block after the await, the render and the data
\* effect; ev keeps the records an appended response was added to
FetchResolve(id, n, more) ==
  /\ pc = "mounted"
  /\ id \in DOMAIN inflight
  /\ inflight' = Settled(id, TRUE)
  /\ LET new == fetchDataSuccess(inflight[id], ResponseData(inflight[id], n), more, data)
         st == DataEffectRerun([ref |-> chartRef, charts |-> charts], new.data,
                               ContainerAttached(error))
     IN /\ data' = new.data
        /\ hasMore' = new.hasMore
        /\ page' = new.page
        /\ loading' = new.loading
        /\ chartRef' = st.ref
        /\ charts' = st.charts
  /\ ev' = [kind |-> "resolve", id |-> id, req |-> inflight[id], n |-> n, more |-> more,
            before |-> IF inflight[id].append THEN data ELSE <<>>]
  /\ UNCHANGED <<pc, error, symbol, issued, sequential>>

\* API.get rejects: the catch block and the render
FetchReject(id) ==
  /\ pc = "mounted"
  /\ id \in DOMAIN inflight
  /\ inflight' = Settled(id, FALSE)
  /\ error' = fetchDataCatch.error
  /\ loading' = fetchDataCatch.loading
  /\ sequential' = FALSE
  /\ ev' = [kind |-> "reject", id |-> id]
  /\ UNCHANGED <<pc, data, symbol, page, hasMore, issued, chartRef, charts>>

\* the promise settles after the unmount: the state setters have no effect
FetchSettleUnmounted(id) ==
  /\ pc = "unmounted"
  /\ id \in DOMAIN inflight
  /\ inflight' = Settled(id, FALSE)
  /\ ev' = [kind |-> "dropped", id |-> id]
  /\ UNCHANGED <<pc, data, loading, error, symbol, page, hasMore, issued, sequential,
                 chartRef, charts>>

\* the component leaves the tree: the cleanup of the data effect runs
Unmount ==
  /\ pc = "mounted"
  /\ pc' = "unmounted"
  /\ LET st == DataEffectCleanup([ref |-> chartRef, charts |-> charts])
     IN /\ chartRef' = st.ref
        /\ charts' = st.charts
  /\ ev' = [kind |-> "unmount"]
  /\ UNCHANGED <<data, loading, error, symbol, page, hasMore, issued, inflight, sequential>>

Next ==
  \/ Mount
  \/ \E value \in TypedValues : handleSymbolChange(value)
  \/ handleSubmit
  \/ loadMore
  \/ \E id \in DOMAIN inflight, n \in 0..MaxBars, more \in BOOLEAN : FetchResolve(id, n, more)
  \/ \E id \in DOMAIN inflight : FetchReject(id)
  \/ \E id \in DOMAIN inflight : FetchSettleUnmounted(id)
  \/ Unmount

Spec == Init /\ [][Next]_vars

\* a promise in flight settles, in whatever state the component is
Settle ==
  \E id \in DOMAIN inflight :
    \/ \E n \in 0..MaxBars, more \in BOOLEAN : FetchResolve(id, n, more)
    \/ FetchReject(id)
    \/ FetchSettleUnmounted(id)

\* the effects of the first commit do run, and the transport answers every
\* call in the end, after which the event loop runs the rest of fetchData
FairSpec == Spec /\ WF_vars(Mount) /\ WF_vars(Settle)



\* ======================================================== properties
LowerChars == {"a", "l", "p", "s", "t"}
IsUpperCase(s) == \A i \in 1..Len(s) : s[i] \notin LowerChars

\* the step issues exactly one fetch, with the given parameters
IssuesOne(sym, pageNum, append) ==
  /\ issued' = issued + 1
  /\ DOMAIN inflight' = DOMAIN inflight \cup {issued'}
  /\ issued' \notin DOMAIN inflight
  /\ \A i \in DOMAIN inflight : inflight'[i] = inflight[i]
  /\ inflight'[issued'].symbol = sym
  /\ inflight'[issued'].page = pageNum
  /\ inflight'[issued'].append = append

IssuesNone == issued' = issued /\ inflight' = inflight

\* the records of the response that the last step committed
CommittedResponse == ResponseData(ev.req, ev.n)

\* C1: while the form is displayed a submit issues exactly one fetch, for
\* page 1, append=false and the stored symbol, changed or not; when that
\* fetch succeeds the records are exactly the records of the response.
SubmitFetchesPageOne ==
  [][ /\ (ev'.kind = "submit" =>
            /\ ~Truthy(error)
            /\ IssuesOne(symbol, 1, FALSE))
      /\ (ev'.kind = "resolve" /\ inflight[ev'.id].src = "submit" =>
            /\ Len(data') = ev'.n
            /\ \A i \in 1..ev'.n :
                 data'[i] = ServerBar(inflight[ev'.id].symbol, 1, i)) ]_vars

SubmitFetchesPageOneWitness ==
  /\ ev.kind = "resolve"
  /\ ev.req.src = "submit"
  /\ ev.req.symbol = symbol
  /\ Len(charts) = 2
  /\ charts[1].removed = 1
  /\ ev.n > 0
  /\ data = CommittedResponse

\* C2: after a symbol-input change the stored symbol is the uppercase form
\* of the typed value; the stored symbol and the symbol of every request
\* issued contain no lowercase letter.
SymbolAlwaysUpperCase ==
  /\ IsUpperCase(symbol)
  /\ \A i \in DOMAIN inflight : IsUpperCase(inflight[i].symbol)
  /\ (ev.kind = "change" =>
        /\ Len(symbol) = Len(ev.value)
        /\ \A i \in 1..Len(symbol) : symbol[i] = UpperChar(ev.value[i]))

SymbolAlwaysUpperCaseWitness ==
  /\ ev.kind = "submit"
  /\ DOMAIN inflight = {2, 3}
  /\ inflight[2].src = "change"
  /\ symbol = <<"A">>
  /\ inflight[3].symbol = <<"A">>

\* C3: a load-more action happens only with hasMore true and loading false,
\* and then issues exactly one fetch, for page+1 with append=true, changing
\* nothing else but loading; no other step issues a fetch with append=true.
LoadMoreGuarded ==
  [][ /\ (ev'.kind = "loadMore" =>
            /\ hasMore /\ ~loading
            /\ IssuesOne(symbol, page + 1, TRUE)
            /\ UNCHANGED <<data, error, symbol, page, hasMore>>)
      /\ (~hasMore \/ loading => ev'.kind # "loadMore")
      /\ (issued' > issued /\ inflight'[issued'].append => ev'.kind = "loadMore") ]_vars

LoadMoreGuardedWitness ==
  /\ ev.kind = "loadMore"
  /\ issued \in DOMAIN inflight
  /\ inflight[issued].append
  /\ inflight[issued].page = page + 1
  /\ page = 1
  /\ hasMore /\ loading

\* C4 as stated: when a load-more fetch succeeds the records are the
\* records held when load more was invoked followed by the response's.
LoadMoreAppendsToInvocationRecords ==
  [][ ev'.kind = "resolve" /\ inflight[ev'.id].append =>
        data' = inflight[ev'.id].held \o ResponseData(inflight[ev'.id], ev'.n) ]_vars

\* C4 amended: when a load-more fetch succeeds the records are the records
\* held immediately before the commit followed by the response's, in order;
\* these are the records held at the invocation when no other fetch has
\* committed in between.
LoadMoreAppendsToCurrentRecords ==
  [][ ev'.kind = "resolve" /\ inflight[ev'.id].append =>
        /\ Len(data') = Len(data) + ev'.n
        /\ SubSeq(data', 1, Len(data)) = data
        /\ \A i \in 1..ev'.n :
             data'[Len(data) + i] =
               ServerBar(inflight[ev'.id].symbol, inflight[ev'.id].page, i)
        /\ (~inflight[ev'.id].overtaken =>
              SubSeq(data', 1, Len(data)) = inflight[ev'.id].held) ]_vars

LoadMoreAppendsToCurrentRecordsWitness ==
  /\ ev.kind = "resolve"
  /\ ev.req.append
  /\ ev.req.overtaken
  /\ ev.n > 0
  /\ Len(ev.before) > 0
  /\ Len(ev.req.held) > 0
  /\ ev.before # ev.req.held
  /\ data = ev.before \o CommittedResponse

\* C5: right after a fetch commits successfully loading is false, page is
\* the page that fetch requested and hasMore is the flag of its response.
SuccessPostcondition ==
  [][ ev'.kind = "resolve" =>
        /\ loading' = FALSE
        /\ page' = inflight[ev'.id].page
        /\ hasMore' = ev'.more ]_vars

SuccessPostconditionWitness ==
  /\ ev.kind = "resolve"
  /\ DOMAIN inflight # {}
  /\ ev.req.append
  /\ page = 2
  /\ ~loading
  /\ ~hasMore

\* C6: right after a fetch fails error is "Failed to fetch data", loading is
\* false, and records, page, hasMore and symbol are what they were.
FailurePostcondition ==
  [][ ev'.kind = "reject" =>
        /\ error' = <<"Failed to fetch data">>
        /\ loading' = FALSE
        /\ UNCHANGED <<data, page, hasMore, symbol>> ]_vars

FailurePostconditionWitness ==
  /\ ev.kind = "reject"
  /\ error = <<"Failed to fetch data">>
  /\ ~loading
  /\ Len(data) > MaxBars
  /\ page = 2

\* C7: once error is set it stays set, whatever happens afterwards, and the
\* view of every state with error set is the bare error message.
ErrorIsTerminal ==
  [][ /\ (Truthy(error) => Truthy(error') /\ error' = error)
      /\ (Truthy(error') => View' = [kind |-> "error", text |-> "Failed to fetch data"])
      /\ (Truthy(error) => ev'.kind \in {"resolve", "reject", "unmount", "dropped"}) ]_vars

ErrorIsTerminalWitness ==
  /\ Truthy(error)
  /\ ev.kind = "resolve"
  /\ ev.n > 0
  /\ pc = "mounted"
  /\ View.kind = "error"

\* C8 as stated: after the mount fetch has been issued loading is true
\* exactly when at least one fetch is in flight.
LoadingTracksInFlight ==
  pc = "mounted" => (loading <=> DOMAIN inflight # {})

\* C9: mounting issues exactly one fetch, for "AAPL", page 1, append=false,
\* from the default state; a symbol-input change that alters the stored
\* symbol issues exactly one fetch for the new symbol, page 1, append=false,
\* and a change that leaves the stored symbol as it is issues none.
MountAndSymbolChangeFetch ==
  [][ /\ (ev'.kind = "mount" =>
            /\ symbol = <<"A", "A", "P", "L">> /\ page = 1 /\ data = <<>>
            /\ hasMore /\ loading /\ error = None
            /\ issued = 0 /\ DOMAIN inflight = {}
            /\ IssuesOne(<<"A", "A", "P", "L">>, 1, FALSE))
      /\ (ev'.kind # "mount" => issued > 0)
      /\ (ev'.kind = "change" /\ symbol' # symbol => IssuesOne(symbol', 1, FALSE))
      /\ (ev'.kind = "change" /\ symbol' = symbol => IssuesNone /\ UNCHANGED view) ]_vars

MountAndSymbolChangeFetchWitness ==
  /\ ev.kind = "change"
  /\ DOMAIN inflight = {1, 2}
  /\ inflight[1].src = "mount"
  /\ inflight[1].symbol = <<"A", "A", "P", "L">>
  /\ inflight[2].src = "change"
  /\ inflight[2].symbol = symbol
  /\ inflight[2].page = 1
  /\ symbol = <<"A">>
  /\ ev.value = <<"a">>

\* C10: once the data effect has run for non-empty records with the
\* container displayed, the candlestick series holds one point per record of
\* the current records, in order, with time = t / 1000 and open, high, low,
\* close copied, also after an append.
ChartShowsAllRecords ==
  /\ (pc = "mounted" /\ ~Truthy(error) /\ Len(data) > 0 => chartRef # NullRef)
  /\ (chartRef # NullRef /\ ~Truthy(error) =>
        /\ Len(charts[chartRef].series) > 0
        /\ LET points == charts[chartRef].series[Len(charts[chartRef].series)]
           IN /\ Len(points) = Len(data)
              /\ \A i \in 1..Len(data) :
                   /\ points[i].time.sec * 1000 + points[i].time.ms = data[i].t
                   /\ points[i].time.ms \in 0..999
                   /\ points[i].open = data[i].o
                   /\ points[i].high = data[i].h
                   /\ points[i].low = data[i].l
                   /\ points[i].close = data[i].c)

ChartShowsAllRecordsWitness ==
  /\ ev.kind = "resolve"
  /\ ev.req.append
  /\ Len(ev.before) > 0
  /\ ev.n > 0
  /\ chartRef # NullRef
  /\ Len(charts[chartRef].series[1]) = Len(ev.before) + ev.n
  /\ \E i \in 1..Len(data) : data[i].t % 1000 # 0

\* the chart instances created and not yet removed
LiveCharts == {i \in 1..Len(charts) : charts[i].removed = 0}

\* C11: at most one chart instance is live and it is the one chartRef holds;
\* no instance is ever removed twice; once the component is unmounted every
\* instance created has been removed exactly once, and no instance is created
\* afterwards, also when a fetch in flight at the unmount settles later.
ChartResourceDiscipline ==
  [][ /\ Cardinality(LiveCharts') <= 1
      /\ LiveCharts' = IF chartRef' = NullRef THEN {} ELSE {chartRef'}
      /\ \A i \in 1..Len(charts') : charts'[i].removed <= 1
      /\ (pc' = "unmounted" =>
            /\ chartRef' = NullRef
            /\ \A i \in 1..Len(charts') : charts'[i].removed = 1)
      /\ (pc = "unmounted" => charts' = charts /\ chartRef' = chartRef) ]_vars

ChartResourceDisciplineWitness ==
  /\ pc = "unmounted"
  /\ ev.kind = "dropped"
  /\ Len(charts) >= 2
  /\ \A i \in 1..Len(charts) : charts[i].removed = 1
  /\ chartRef = NullRef


\* C12: a fetch that resolves while the component is mounted is never
\* dropped: its records replace or extend the records and its page and
\* hasMore are written, also when it was issued for another symbol than the
\* stored one or when a newer fetch has committed before it.
NoStaleResponseDiscarded ==
  [][ /\ (ev'.kind = "resolve" /\
          (inflight[ev'.id].symbol # symbol \/ inflight[ev'.id].overtaken) =>
            /\ data' = IF inflight[ev'.id].append
                       THEN data \o ResponseData(inflight[ev'.id], ev'.n)
                       ELSE ResponseData(inflight[ev'.id], ev'.n)
            /\ page' = inflight[ev'.id].page
            /\ hasMore' = ev'.more)
      /\ (ev'.kind = "dropped" => pc = "unmounted") ]_vars

\* records fetched for another symbol than the stored one, page and hasMore
\* of that stale response
NoStaleResponseDiscardedWitness ==
  /\ pc = "mounted"
  /\ ev.kind = "resolve"
  /\ ev.req.symbol # symbol
  /\ ev.req.overtaken
  /\ ev.req.append
  /\ Len(data) > 0
  /\ \A i \in 1..Len(data) : data[i].v = Len(ev.req.symbol)
  /\ Len(ev.req.symbol) # Len(symbol)
  /\ page = ev.req.page
  /\ page = 2
  /\ hasMore = ev.more

\* C13 as stated: the chart instance is created once, the first time the
\* records are non-empty, is never recreated, and is removed only when the
\* component unmounts.
ChartInstanceReused ==
  /\ Len(charts) <= 1
  /\ (pc = "mounted" => \A i \in 1..Len(charts) : charts[i].removed = 0)

\* C14: every successful replace or append, also one that leaves the
\* contents as they were, removes the chart instance constructed before and
\* clears the reference; a fresh instance is then constructed exactly when
\* the new records are non-empty and the container is displayed, so after an
\* update to empty records no chart instance is live.
ChartRebuiltOnDataChange ==
  [][ ev'.kind = "resolve" =>
        /\ (chartRef # NullRef =>
              /\ charts'[chartRef].removed = charts[chartRef].removed + 1
              /\ chartRef' # chartRef)
        /\ (chartRef' # NullRef <=> Len(data') > 0 /\ ~Truthy(error'))
        /\ (chartRef' # NullRef =>
              /\ chartRef' = Len(charts) + 1
              /\ Len(charts') = Len(charts) + 1
              /\ charts'[chartRef'].removed = 0)
        /\ (chartRef' = NullRef => Len(charts') = Len(charts))
        /\ (Len(data') = 0 => LiveCharts' = {}) ]_vars

\* the mount fetch and a submit of the unchanged symbol have both answered
\* with a full first page
ChartRebuiltOnDataChangeWitness ==
  /\ ev.kind = "resolve"
  /\ ~ev.req.append
  /\ ev.req.src = "submit"
  /\ ev.req.symbol = DefaultSymbol
  /\ ev.n = MaxBars
  /\ issued = 2
  /\ Len(data) > 0
  /\ ~Truthy(error)
  /\ Len(charts) = 2
  /\ charts[1].removed = 1
  /\ chartRef = 2

\* C15: once error is set no fetch is issued any more; the fetches in
\* flight may still settle.
NoFetchAfterError ==
  [][ Truthy(error) =>
        /\ issued' = issued
        /\ DOMAIN inflight' \subseteq DOMAIN inflight
        /\ ev'.kind \notin {"submit", "change", "loadMore", "mount"} ]_vars

NoFetchAfterErrorWitness ==
  /\ pc = "mounted"
  /\ Truthy(error)
  /\ ev.kind = "resolve"
  /\ ev.more
  /\ hasMore /\ ~loading
  /\ inflight = <<>>
  /\ issued < MaxFetches

\* C16 as stated: the stored symbol is never the empty string and no fetch
\* is issued with an empty symbol.
SymbolNeverEmpty ==
  /\ Len(symbol) > 0
  /\ \A i \in DOMAIN inflight : Len(inflight[i].symbol) > 0

\* C17: when every fetch in flight settles in the end, the mounted component
\* ends in states with loading false and stays there; and loading goes from
\* true to false only in the step in which a fetch resolves or fails, there
\* is no timeout.
LoadingEndsWhenTransportAnswers ==
  /\ <>[](pc = "unmounted" \/ ~loading)
  /\ [][loading /\ ~loading' => ev'.kind \in {"resolve", "reject"}]_vars

LoadingEndsWhenTransportAnswersWitness ==
  /\ pc = "mounted"
  /\ ~loading
  /\ inflight = <<>>
  /\ issued = MaxFetches
  /\ ev.kind = "reject"

\* pages 1..k of the service for a symbol, lens[j] bars on page j, in order
RECURSIVE PagesConcat(_, _, _)
PagesConcat(sym, lens, k) ==
  IF k = 0 THEN <<>>
  ELSE PagesConcat(sym, lens, k - 1) \o
       [i \in 1..lens[k] |-> ServerBar(sym, k, i)]

PagesHeld ==
  pc = "mounted" /\ sequential /\ DOMAIN inflight = {} =>
    \E lens \in [1..page -> 0..MaxBars] : data = PagesConcat(symbol, lens, page)

\* C18: while no two fetches have overlapped and none has failed, whenever
\* no fetch is in flight the records are pages 1..page of the service for the
\* stored symbol, in order; a fetch that commits was issued for the stored
\* symbol, a load-more fetch for the page after the one held and any other
\* fetch for page 1, and hasMore is the flag of that response.
SequentialPagination ==
  [][ /\ PagesHeld'
      /\ (sequential' /\ ev'.kind = "resolve" =>
            /\ inflight[ev'.id].symbol = symbol
            /\ inflight[ev'.id].page = IF inflight[ev'.id].append THEN page + 1 ELSE 1
            /\ page' = inflight[ev'.id].page
            /\ hasMore' = ev'.more) ]_vars

SequentialPaginationWitness ==
  /\ pc = "mounted"
  /\ sequential
  /\ inflight = <<>>
  /\ ev.kind = "resolve"
  /\ ev.req.append
  /\ page = 2
  /\ symbol = <<"A">>
  /\ data = <<ServerBar(<<"A">>, 1, 1), ServerBar(<<"A">>, 2, 1)>>

\* C19 as stated: while error is set, so that the chart container is not
\* displayed, no chart instance is live.
NoChartInErrorView ==
  Truthy(error) => chartRef = NullRef /\ LiveCharts = {}

\* C20: a candlestick series is added to a chart instance at most once: no
\* instance holds more than one series and the live instance holds exactly
\* one, whatever replace and append updates have happened.
OneSeriesPerChart ==
  /\ \A i \in 1..Len(charts) : Len(charts[i].series) <= 1
  /\ \A i \in LiveCharts : Len(charts[i].series) = 1
  /\ (chartRef # NullRef => Len(charts[chartRef].series) = 1)

OneSeriesPerChartWitness ==
  /\ ev.kind = "resolve"
  /\ ev.req.append
  /\ ev.n > 0
  /\ Len(charts) = 3
  /\ chartRef = 3
  /\ Len(charts[3].series) = 1
  /\ Len(charts[3].series[1]) = Len(data)

====
